---- MODULE Spec2Model ----
(***************************************************************************)
(* biocheck: internal consistency checker for BIOMASS products.           *)
(*                                                                         *)
(* The module models src/biocheck.py: the base-36 codec (base36encode and  *)
(* the int(s, 36) parse the date check pairs it with), the schema          *)
(* validator's control flow (check_file_against_schema), the per-product   *)
(* pass (verify_biomass_product) and the exit-code aggregation of main.    *)
(*                                                                         *)
(* Text is a sequence of one-character strings, so that slicing,           *)
(* concatenation and comparison are those of Python's str.  A Python       *)
(* exception that nothing catches ends the interpreter with status 1.      *)
(***************************************************************************)
EXTENDS Integers, Sequences, FiniteSets, TLC

VARIABLES
    pc,             \* position of the process in main and in the pass
    products,       \* args.products
    use_mph_schema, \* args.schema
    argidx,         \* number of products the for loop of main has taken
    product,        \* product.name of the product under check
    result,         \* value returned by verify_biomass_product
    return_code,    \* main's return_code
    exit_code,      \* process exit status, NoExit while running
    exc,            \* the exception that ended the process, or "none"
    has_errors,     \* verify_biomass_product's flag
    has_warnings,   \* verify_biomass_product's flag
    mph_date,       \* text of the processingDate element
    files,          \* the inventory list
    product_info,   \* descriptor taken by the latest loop iteration
    descidx,        \* number of descriptors the loop has taken
    stage,          \* history: the last part of the pass that was entered
    results,        \* history: the results returned so far, in order
    inventory,      \* history: the inventory as first listed
    by_href,        \* history: the files removed as a descriptor's href
    by_schema,      \* history: the files removed as a descriptor's schema
    warned,         \* history: files warned as unreferenced
    nerrors,        \* history: error messages logged in this pass
    logged,         \* error messages logged by the latest step
    calls,          \* stat and validator calls made by the latest step
    validation,     \* inputs and outcome of the latest validator call
    number,         \* codec: the value handed to base36encode
    encoded,        \* codec: what base36encode gave
    decoded         \* codec: what int(encoded, 36) gave

vars == <<pc, products, use_mph_schema, argidx, product, result, return_code,
          exit_code, exc, has_errors, has_warnings, mph_date, files,
          product_info, descidx, stage, results, inventory, by_href,
          by_schema, warned, nerrors, logged, calls, validation, number, encoded,
          decoded>>

codec_vars == <<number, encoded, decoded>>

(***************************************************************************)
(* Python values                                                           *)
(***************************************************************************)
None == <<"<None>">>

NoExit == -1

\* the int n
PyInt(n) == [type |-> "int", val |-> n]

\* True (1) or False (0)
PyBool(n) == [type |-> "bool", val |-> n]

\* the float n + 0.5
PyFloat(n) == [type |-> "float", val |-> n]

\* the decimal text of n
PyStr(n) == [type |-> "str", val |-> n]

Returned(v) == [exc |-> "none", val |-> v]

Raised(e) == [exc |-> e, val |-> None]

\* isinstance(number, int): bool is a subclass of int
isinstance_int(v) == v.type \in {"int", "bool"}

(***************************************************************************)
(* Compact Date Codec                                                      *)
(***************************************************************************)
alphabet == <<"0", "1", "2", "3", "4", "5", "6", "7", "8", "9", "A", "B",
              "C", "D", "E", "F", "G", "H", "I", "J", "K", "L", "M", "N",
              "O", "P", "Q", "R", "S", "T", "U", "V", "W", "X", "Y", "Z">>

lowercase == <<"0", "1", "2", "3", "4", "5", "6", "7", "8", "9", "a", "b",
               "c", "d", "e", "f", "g", "h", "i", "j", "k", "l", "m", "n",
               "o", "p", "q", "r", "s", "t", "u", "v", "w", "x", "y", "z">>

\* mutant of Symbol: the remainder indexes the alphabet one place too far
SymbolShifted(n) == alphabet[((n + 1) % Len(alphabet)) + 1]

\* number, i = divmod(number, len(alphabet)): the remainder, as a symbol
Symbol(n) == alphabet[(n % Len(alphabet)) + 1]

RECURSIVE base36loop(_, _)
\* the while loop of base36encode
base36loop(n, base36) ==
    IF n = 0 THEN base36
    ELSE base36loop(n \div Len(alphabet), <<Symbol(n)>> \o base36)

base36encode(v) ==
    IF ~isinstance_int(v) THEN Raised("TypeError")
    ELSE LET sign == IF v.val < 0 THEN <<"-">> ELSE <<>>
             n == IF v.val < 0 THEN -v.val ELSE v.val
         IN IF 0 <= n /\ n < Len(alphabet)
            THEN Returned(sign \o <<alphabet[n + 1]>>)
            ELSE Returned(sign \o base36loop(n, <<>>))

\* value of one character as a digit, -1 when it is none
DigitValue(c) ==
    IF \E i \in 1..Len(alphabet) : alphabet[i] = c
    THEN (CHOOSE i \in 1..Len(alphabet) : alphabet[i] = c) - 1
    ELSE IF \E i \in 1..Len(lowercase) : lowercase[i] = c
    THEN (CHOOSE i \in 1..Len(lowercase) : lowercase[i] = c) - 1
    ELSE -1

RECURSIVE Positional(_, _, _)
\* positional value of the digit string s, most significant first
Positional(s, base, acc) ==
    IF s = <<>> THEN acc
    ELSE Positional(Tail(s), base, acc * base + DigitValue(Head(s)))

\* Python's int(s, base) on text of digits with an optional sign: a character
\* that is no digit of the base, or no digit at all, is a ValueError
int(s, base) ==
    IF s = None THEN Raised("TypeError")
    ELSE LET signed == s # <<>> /\ Head(s) \in {"-", "+"}
             digits == IF signed THEN Tail(s) ELSE s
             ok == /\ digits # <<>>
                   /\ \A i \in 1..Len(digits) :
                        /\ DigitValue(digits[i]) >= 0
                        /\ DigitValue(digits[i]) < base
             value == Positional(digits, base, 0)
         IN IF ~ok THEN Raised("ValueError")
            ELSE Returned(IF signed /\ Head(s) = "-" THEN -value ELSE value)

\* s[-n:]
LastChars(s, n) == IF Len(s) <= n THEN s ELSE SubSeq(s, Len(s) - n + 1, Len(s))

(***************************************************************************)
(* datetime.strptime(text, '%Y-%m-%dT%H:%M:%SZ') - epoch                   *)
(* A timestamp text is the tuple of its six numeric fields.                *)
(***************************************************************************)
IsLeap(y) == (y % 4 = 0 /\ y % 100 # 0) \/ y % 400 = 0

DaysInMonth(y, m) ==
    IF m = 2 THEN (IF IsLeap(y) THEN 29 ELSE 28)
    ELSE IF m \in {4, 6, 9, 11} THEN 30 ELSE 31

\* leap days in the years 1 .. y
LeapDays(y) == (y \div 4) - (y \div 100) + (y \div 400)

RECURSIVE DaysBeforeMonth(_, _)
DaysBeforeMonth(y, m) ==
    IF m = 1 THEN 0 ELSE DaysBeforeMonth(y, m - 1) + DaysInMonth(y, m - 1)

\* strptime: a field out of its range is a ValueError
strptime(t) ==
    IF /\ t[2] \in 1..12
       /\ t[3] \in 1..DaysInMonth(t[1], t[2])
       /\ t[4] \in 0..23 /\ t[5] \in 0..59 /\ t[6] \in 0..59
    THEN Returned(t)
    ELSE Raised("ValueError")

\* int((t - datetime(2000, 1, 1)).total_seconds())
total_seconds(t) ==
    LET days == (t[1] - 2000) * 365 + LeapDays(t[1] - 1) - LeapDays(1999)
                + DaysBeforeMonth(t[1], t[2]) + (t[3] - 1)
    IN days * 86400 + t[4] * 3600 + t[5] * 60 + t[6]

(***************************************************************************)
(* Schema Validator                                                        *)
(* What the call reads is drawn by the caller: whether the schema parses   *)
(* and compiles (schema_ok) and what the target document is (doc).         *)
(***************************************************************************)
Documents == {"malformed", "invalid", "valid"}

\* lines 244-253: etree.parse of the document, then assertValid, with the
\* one handler for etree.DocumentInvalid
assertValid(doc) ==
    IF doc = "malformed" THEN Raised("XMLSyntaxError")
    ELSE IF doc = "invalid" THEN Returned(FALSE)
    ELSE Returned(TRUE)

check_file_against_schema(builtin, schema_ok, doc) ==
    IF builtin
    THEN IF ~schema_ok THEN Raised("XMLSchemaParseError") ELSE assertValid(doc)
    ELSE IF ~schema_ok THEN Returned(FALSE) ELSE assertValid(doc)

NoValidation == [builtin |-> FALSE, schema_ok |-> FALSE, doc |-> "none",
                 exc |-> "none", val |-> FALSE]

Validation(builtin, schema_ok, doc) ==
    LET v == check_file_against_schema(builtin, schema_ok, doc)
    IN [builtin |-> builtin, schema_ok |-> schema_ok, doc |-> doc,
        exc |-> v.exc, val |-> (v.exc = "none" /\ v.val)]

(***************************************************************************)
(* Bounds and the inputs the model draws                                   *)
(***************************************************************************)
MaxProducts == 2

MaxDesc == 2

MaxCodecInt == 1400

SuffixLen == 6

GoodDate == <<2023, 1, 3, 12, 13, 57>>

EarlyDate == <<2000, 1, 1, 0, 0, 10>>

BadDate == <<2023, 2, 29, 12, 13, 57>>

GoodCode == base36encode(PyInt(total_seconds(GoodDate))).val

MutChars == {"0", "Z", "a", "!"}

\* every text that differs from s in exactly one character, drawn from MutChars
Mutations(s) ==
    {[s EXCEPT ![i] = c] : i \in 1..Len(s), c \in MutChars} \ {s}

\* product names whose pass is explored with every manifest and inventory
RichNames == {<<"R", "_">> \o GoodCode}

\* product names explored in runs of several products
PlainNames == {<<"P", "_">> \o GoodCode,
               <<"P", "_">> \o [GoodCode EXCEPT ![SuffixLen] = "!"]}

\* product names explored with every processingDate
DateNames == {<<"D", "_">> \o m : m \in {GoodCode} \cup Mutations(GoodCode)}
             \cup {<<"D", "1">>}

RECURSIVE ListsUpTo(_, _)
\* the non-empty lists over S of length at most n
ListsUpTo(S, n) ==
    IF n = 0 THEN {}
    ELSE LET shorter == ListsUpTo(S, n - 1)
         IN {<<x>> : x \in S} \cup shorter
            \cup {Append(l, x) : l \in shorter, x \in S}

\* the command lines explored (nargs='+': at least one product)
ArgLists == ListsUpTo(PlainNames, MaxProducts)
            \cup {<<n>> : n \in RichNames \cup DateNames}

\* the processingDate elements a manifest of the product may carry
Dates(name) ==
    IF name \in RichNames THEN {GoodDate, BadDate}
    ELSE IF name \in PlainNames THEN {None, GoodDate}
    ELSE {None, GoodDate, EarlyDate, BadDate}

\* the manifest, <root>/<lowercased root name>.xml
MphFile == <<"m">>

\* the order in which the directory walk lists the files
FileOrder == <<MphFile, <<"a">>, <<"b">>, <<"s">>>>

\* st_size of each file
FileSize == [f \in {FileOrder[i] : i \in 1..Len(FileOrder)} |->
                IF f = <<"b">> THEN 2 ELSE 1]

\* the sets of regular files, beside the manifest, a product may hold
Inventories(name) ==
    IF name \in RichNames THEN SUBSET {<<"a">>, <<"b">>, <<"s">>}
    ELSE IF name \in PlainNames THEN {{}, {<<"a">>}}
    ELSE {{}}

\* the number of ProductInformation elements a manifest may carry
DescBudget(name) == IF name \in RichNames THEN MaxDesc ELSE 0

\* the ProductInformation elements: href, eop:size text, bio:rds text
Descriptors(name) ==
    [href : {name, <<"a">>, <<"b">>, <<"s">>, <<"x">>},
     size : {None, <<"1">>, <<"2">>, <<"!">>},
     rds : {None, <<"s">>, <<"x">>}]

NoInfo == [href |-> None, size |-> None, rds |-> None]

(***************************************************************************)
(* Reconciliation Engine: the pieces of one loop iteration                 *)
(***************************************************************************)
Error(kind, about) == [kind |-> kind, about |-> about]

\* x in l
contains(l, x) == \E i \in 1..Len(l) : l[i] = x

\* mutant of remove: the entry stays in the list
removeNothing(l, x) == l

RECURSIVE remove(_, _)
\* l.remove(x): drops the first occurrence of x
remove(l, x) ==
    IF l = <<>> THEN l
    ELSE IF Head(l) = x THEN Tail(l)
    ELSE <<Head(l)>> \o remove(Tail(l), x)

\* the list that rglob gives for a set of files
Listing(S) == SelectSeq(FileOrder, LAMBDA f : f \in S)

\* mutant of SizeCheck: the sizes are read and never compared
SizeCheckLenient(filepath, size_element) ==
    [exc |-> "none", logged |-> <<>>,
     calls |-> IF size_element = None THEN <<>> ELSE <<"stat">>]

\* lines 320-327
SizeCheck(filepath, size_element) ==
    IF size_element = None
    THEN [exc |-> "none", logged |-> <<>>, calls |-> <<>>]
    ELSE LET declared == int(size_element, 10)
         IN IF declared.exc # "none"
            THEN [exc |-> declared.exc, logged |-> <<>>, calls |-> <<"stat">>]
            ELSE [exc |-> "none",
                  logged |-> IF FileSize[filepath] # declared.val
                             THEN <<Error("file size does not match", filepath)>>
                             ELSE <<>>,
                  calls |-> <<"stat">>]

\* mutant of SchemaCheck: the schema file is used and left in the list
SchemaCheckKeepsFile(fs, filepath, rds, schema_ok, doc) ==
    IF rds = None
    THEN [files |-> fs, claimed |-> <<>>, exc |-> "none", failed |-> FALSE,
          logged |-> <<>>, calls |-> <<>>, validation |-> NoValidation]
    ELSE IF contains(fs, rds)
    THEN LET v == Validation(FALSE, schema_ok, doc)
             failed == v.exc = "none" /\ ~v.val
         IN [files |-> fs, claimed |-> <<rds>>, exc |-> v.exc,
             failed |-> failed,
             logged |-> IF failed
                        THEN <<Error(IF schema_ok THEN "could not verify"
                                     ELSE "could not parse schema", filepath)>>
                        ELSE <<>>,
             calls |-> <<"check_file_against_schema">>, validation |-> v]
    ELSE [files |-> fs, claimed |-> <<>>, exc |-> "none", failed |-> TRUE,
          logged |-> <<Error("schema file does not exist", rds)>>,
          calls |-> <<>>, validation |-> NoValidation]

\* lines 328-338
SchemaCheck(fs, filepath, rds, schema_ok, doc) ==
    IF rds = None
    THEN [files |-> fs, claimed |-> <<>>, exc |-> "none", failed |-> FALSE,
          logged |-> <<>>, calls |-> <<>>, validation |-> NoValidation]
    ELSE IF contains(fs, rds)
    THEN LET v == Validation(FALSE, schema_ok, doc)
             failed == v.exc = "none" /\ ~v.val
         IN [files |-> remove(fs, rds), claimed |-> <<rds>>, exc |-> v.exc,
             failed |-> failed,
             logged |-> IF failed
                        THEN <<Error(IF schema_ok THEN "could not verify"
                                     ELSE "could not parse schema", filepath)>>
                        ELSE <<>>,
             calls |-> <<"check_file_against_schema">>, validation |-> v]
    ELSE [files |-> fs, claimed |-> <<>>, exc |-> "none", failed |-> TRUE,
          logged |-> <<Error("schema file does not exist", rds)>>,
          calls |-> <<>>, validation |-> NoValidation]

\* lines 311-312: the iteration that does nothing
Skip(fs) ==
    [files |-> fs, href |-> <<>>, schema |-> <<>>, exc |-> "none",
     failed |-> FALSE, logged |-> <<>>, calls |-> <<>>,
     validation |-> NoValidation]

\* mutant of MissingReference: the message is logged, the flag is not set
MissingReferenceUnflagged(fs, href) ==
    [Skip(fs) EXCEPT !.logged = <<Error("MPH reference does not exist", href)>>]

\* lines 316-319
MissingReference(fs, href) ==
    [Skip(fs) EXCEPT !.failed = TRUE,
                     !.logged = <<Error("MPH reference does not exist", href)>>]

\* lines 309-338: one iteration of the descriptor loop
Iteration(fs, name, info, schema_ok, doc) ==
    LET filepath == info.href
    IN IF info.href = name THEN Skip(fs)
       ELSE IF ~contains(fs, filepath) THEN MissingReference(fs, info.href)
       ELSE LET claimed == remove(fs, filepath)
                sz == SizeCheck(filepath, info.size)
                sc == SchemaCheck(claimed, filepath, info.rds, schema_ok, doc)
            IN IF sz.exc # "none"
               THEN [Skip(claimed) EXCEPT !.href = <<filepath>>,
                                          !.exc = sz.exc, !.calls = sz.calls]
               ELSE [files |-> sc.files, href |-> <<filepath>>,
                     schema |-> sc.claimed, exc |-> sc.exc,
                     failed |-> sz.logged # <<>> \/ sc.failed,
                     logged |-> sz.logged \o sc.logged,
                     calls |-> sz.calls \o sc.calls,
                     validation |-> sc.validation]

\* what the validator may find when the iteration calls it: a schema that
\* compiles or not, and a component document of any kind
SchemaReads(fs, name, info) ==
    IF Iteration(fs, name, info, TRUE, "valid").validation = NoValidation
    THEN {<<TRUE, "valid">>}
    ELSE BOOLEAN \X Documents

\* mutant of Verdict: the warnings are looked at first
VerdictWarningsFirst(errors, warnings) ==
    IF warnings THEN 3 ELSE IF errors THEN 2 ELSE 0

\* lines 345-349
Verdict(errors, warnings) == IF errors THEN 2 ELSE IF warnings THEN 3 ELSE 0

\* mutant of Aggregated: the numerically largest result is kept
AggregatedLargest(code, res) == IF res > code THEN res ELSE code

\* lines 388-390
Aggregated(code, res) ==
    IF res # 0 /\ (res < code \/ code = 0) THEN res ELSE code

(***************************************************************************)
(* The process: main and, inlined, verify_biomass_product                  *)
(***************************************************************************)
args == <<products, use_mph_schema>>

codec_idle ==
    /\ number = PyInt(0)
    /\ encoded = Raised("pending")
    /\ decoded = Raised("pending")

Init ==
    /\ pc = "main"
    /\ products \in ArgLists
    /\ use_mph_schema \in BOOLEAN
    /\ argidx = 0
    /\ return_code = 0
    /\ exit_code = NoExit
    /\ exc = "none"
    /\ results = <<>>
    /\ product = None
    /\ result = 0
    /\ has_errors = FALSE
    /\ has_warnings = FALSE
    /\ mph_date = None
    /\ files = <<>>
    /\ product_info = NoInfo
    /\ descidx = 0
    /\ stage = "none"
    /\ inventory = <<>>
    /\ by_href = <<>>
    /\ by_schema = <<>>
    /\ warned = {}
    /\ nerrors = 0
    /\ logged = <<>>
    /\ calls = <<>>
    /\ validation = NoValidation
    /\ codec_idle

\* the frame of verify_biomass_product is gone
Discard ==
    /\ product' = None
    /\ result' = 0
    /\ has_errors' = FALSE
    /\ has_warnings' = FALSE
    /\ mph_date' = None
    /\ files' = <<>>
    /\ product_info' = NoInfo
    /\ descidx' = 0
    /\ stage' = "none"
    /\ inventory' = <<>>
    /\ by_href' = <<>>
    /\ by_schema' = <<>>
    /\ warned' = {}
    /\ nerrors' = 0
    /\ logged' = <<>>
    /\ calls' = <<>>
    /\ validation' = NoValidation

\* what a step of the pass logs and calls, and whether it sets has_errors
Record(failed, msgs, cs, v) ==
    /\ has_errors' = (has_errors \/ failed)
    /\ logged' = msgs
    /\ nerrors' = nerrors + Len(msgs)
    /\ calls' = cs
    /\ validation' = v

\* the pass goes on at position next
Goto(next) ==
    /\ pc' = next
    /\ UNCHANGED <<result, exit_code, exc>>

\* return value
Return(value) ==
    /\ pc' = "aggregate"
    /\ result' = value
    /\ UNCHANGED <<exit_code, exc>>

\* an exception leaves verify_biomass_product and main: neither handler of
\* main (SystemExit, KeyboardInterrupt) takes it, the interpreter exits with 1
Uncaught(e) ==
    /\ pc' = "exited"
    /\ exit_code' = 1
    /\ exc' = e
    /\ UNCHANGED result

\* lines 384-387 and 261-265: the for loop of main takes the next product
NextProduct ==
    /\ pc = "main"
    /\ argidx < Len(products)
    /\ argidx' = argidx + 1
    /\ product' = products[argidx + 1]
    /\ has_errors' = FALSE
    /\ has_warnings' = FALSE
    /\ stage' = "structure"
    /\ pc' = "structure"
    /\ UNCHANGED <<args, result, return_code, exit_code, exc, mph_date, files,
                   product_info, descidx, results, inventory, by_href,
                   by_schema, warned, nerrors, logged, calls, validation,
                   codec_vars>>

\* lines 267-286: the structural checks, the optional manifest-schema check
\* and the parse of the manifest
CheckStructure ==
    /\ pc = "structure"
    /\ \E exists \in BOOLEAN, mph_exists \in BOOLEAN,
          schema_ok \in BOOLEAN, doc \in Documents :
          LET v == IF use_mph_schema THEN Validation(TRUE, schema_ok, doc)
                   ELSE NoValidation
              cs == IF use_mph_schema THEN <<"check_file_against_schema">>
                    ELSE <<>>
              invalid == use_mph_schema /\ v.exc = "none" /\ ~v.val
              msgs == IF invalid THEN <<Error("could not verify", MphFile)>>
                      ELSE <<>>
          IN IF ~exists
             THEN /\ Record(FALSE, <<Error("could not find", product)>>,
                            <<>>, NoValidation)
                  /\ Return(2)
             ELSE IF ~mph_exists
             THEN /\ Record(FALSE, <<Error("could not find", MphFile)>>,
                            <<>>, NoValidation)
                  /\ Return(2)
             ELSE IF v.exc # "none"
             THEN Record(FALSE, <<>>, cs, v) /\ Uncaught(v.exc)
             ELSE IF doc = "malformed"
             THEN /\ Record(invalid,
                            msgs \o <<Error("could not parse xml file",
                                            MphFile)>>, cs, v)
                  /\ Return(2)
             ELSE Record(invalid, msgs, cs, v) /\ Goto("date")
    /\ UNCHANGED <<args, argidx, product, return_code, has_warnings, mph_date,
                   files, product_info, descidx, stage, results, inventory,
                   by_href, by_schema, warned, codec_vars>>

\* lines 288-302: the encoded creation date of the product name
CheckDate ==
    /\ pc = "date"
    /\ stage' = "date"
    /\ \E text \in Dates(product) :
          /\ mph_date' = text
          /\ IF text = None
             THEN /\ Record(FALSE, <<>>, <<>>, NoValidation)
                  /\ Uncaught("AttributeError")
             ELSE IF strptime(text).exc # "none"
             THEN /\ Record(TRUE, <<Error("invalid value for processingDate",
                                          MphFile)>>, <<>>, NoValidation)
                  /\ Goto("inventory")
             ELSE LET compact_mph_date ==
                          base36encode(PyInt(total_seconds(text))).val
                      compact_creation_date == LastChars(product, SuffixLen)
                      seconds == int(compact_creation_date, 36)
                  IN IF seconds.exc # "none"
                     THEN /\ Record(FALSE, <<>>, <<>>, NoValidation)
                          /\ Uncaught(seconds.exc)
                     ELSE IF compact_creation_date # compact_mph_date
                     THEN /\ Record(TRUE,
                                    <<Error("compact creation date does not match",
                                            product)>>, <<>>, NoValidation)
                          /\ Goto("inventory")
                     ELSE /\ Record(FALSE, <<>>, <<>>, NoValidation)
                          /\ Goto("inventory")
    /\ UNCHANGED <<args, argidx, product, return_code, has_warnings, files,
                   product_info, descidx, results, inventory, by_href,
                   by_schema, warned, codec_vars>>

\* lines 304-306: the list of files in the product, less the manifest
ListFiles ==
    /\ pc = "inventory"
    /\ stage' = "inventory"
    /\ \E S \in Inventories(product) :
          files' = remove(Listing(S \cup {MphFile}), MphFile)
    /\ inventory' = files'
    /\ Record(FALSE, <<>>, <<>>, NoValidation)
    /\ Goto("loop")
    /\ UNCHANGED <<args, argidx, product, return_code, has_warnings, mph_date,
                   product_info, descidx, results, by_href, by_schema, warned,
                   codec_vars>>

\* lines 309-338: the loop takes the next ProductInformation element
Descriptor ==
    /\ pc = "loop"
    /\ descidx < DescBudget(product)
    /\ stage' = "loop"
    /\ descidx' = descidx + 1
    /\ \E info \in Descriptors(product) :
        \E read \in SchemaReads(files, product, info) :
          LET o == Iteration(files, product, info, read[1], read[2])
          IN /\ product_info' = info
             /\ files' = o.files
             /\ by_href' = by_href \o o.href
             /\ by_schema' = by_schema \o o.schema
             /\ Record(o.failed, o.logged, o.calls, o.validation)
             /\ IF o.exc # "none" THEN Uncaught(o.exc) ELSE Goto("loop")
    /\ UNCHANGED <<args, argidx, product, return_code, has_warnings, mph_date,
                   results, inventory, warned, codec_vars>>

\* lines 340-349: the loop is over; unreferenced files, then the verdict
Report ==
    /\ pc = "loop"
    /\ stage' = "report"
    /\ warned' = {files[i] : i \in 1..Len(files)}
    /\ has_warnings' = (has_warnings \/ files # <<>>)
    /\ Record(FALSE, <<>>, <<>>, NoValidation)
    /\ Return(Verdict(has_errors, has_warnings'))
    /\ UNCHANGED <<args, argidx, product, return_code, mph_date, files,
                   product_info, descidx, results, inventory, by_href,
                   by_schema, codec_vars>>

\* lines 387-392: main takes the result
Aggregate ==
    /\ pc = "aggregate"
    /\ return_code' = Aggregated(return_code, result)
    /\ results' = Append(results, result)
    /\ pc' = "main"
    /\ Discard
    /\ UNCHANGED <<args, argidx, exit_code, exc, codec_vars>>

\* line 393: sys.exit(return_code)
Exit ==
    /\ pc = "main"
    /\ argidx = Len(products)
    /\ pc' = "exited"
    /\ exit_code' = return_code
    /\ UNCHANGED <<args, argidx, product, result, return_code, exc,
                   has_errors, has_warnings, mph_date, files, product_info,
                   descidx, stage, results, inventory, by_href, by_schema,
                   warned, nerrors, logged, calls, validation, codec_vars>>

\* lines 396-397: KeyboardInterrupt, at any point of the try block
Interrupt ==
    /\ pc \in {"main", "structure", "date", "inventory", "loop", "aggregate"}
    /\ pc' = "exited"
    /\ exit_code' = 1
    /\ exc' = "KeyboardInterrupt"
    /\ Discard
    /\ UNCHANGED <<args, argidx, return_code, results, codec_vars>>

Next ==
    \/ NextProduct
    \/ CheckStructure
    \/ CheckDate
    \/ ListFiles
    \/ Descriptor
    \/ Report
    \/ Aggregate
    \/ Exit
    \/ Interrupt

Spec == Init /\ [][Next]_vars

(***************************************************************************)
(* The codec alone: base36encode applied to a value, and its result read   *)
(* back with int(s, 36) as line 298 does                                   *)
(***************************************************************************)
\* the values handed to base36encode
CodecInputs ==
    {PyInt(n) : n \in 0..MaxCodecInt}
    \cup {PyInt(n) : n \in {46655, 46656, 1679615, 1679616, 60466175,
                            60466176, total_seconds(GoodDate), 2147483647}}
    \cup {PyInt(-n) : n \in {1, 35, 36, 1296}}
    \cup {PyBool(0), PyBool(1), PyFloat(0), PyFloat(36), PyStr(0), PyStr(36)}

InitCodec ==
    /\ pc = "encode"
    /\ products = <<>>
    /\ use_mph_schema = FALSE
    /\ argidx = 0
    /\ return_code = 0
    /\ exit_code = NoExit
    /\ exc = "none"
    /\ results = <<>>
    /\ product = None
    /\ result = 0
    /\ has_errors = FALSE
    /\ has_warnings = FALSE
    /\ mph_date = None
    /\ files = <<>>
    /\ product_info = NoInfo
    /\ descidx = 0
    /\ stage = "none"
    /\ inventory = <<>>
    /\ by_href = <<>>
    /\ by_schema = <<>>
    /\ warned = {}
    /\ nerrors = 0
    /\ logged = <<>>
    /\ calls = <<>>
    /\ validation = NoValidation
    /\ number \in CodecInputs
    /\ encoded = Raised("pending")
    /\ decoded = Raised("pending")

\* lines 213-228
Encode ==
    /\ pc = "encode"
    /\ encoded' = base36encode(number)
    /\ pc' = IF encoded'.exc = "none" THEN "decode" ELSE "done"
    /\ UNCHANGED <<number, decoded>>
    /\ UNCHANGED <<products, use_mph_schema, argidx, product, result,
                   return_code, exit_code, exc, has_errors, has_warnings,
                   mph_date, files, product_info, descidx, stage, results,
                   inventory, by_href, by_schema, warned, nerrors, logged,
                   calls, validation>>

\* line 298: int(compact_creation_date, 36)
Decode ==
    /\ pc = "decode"
    /\ decoded' = int(encoded.val, 36)
    /\ pc' = "done"
    /\ UNCHANGED <<number, encoded>>
    /\ UNCHANGED <<products, use_mph_schema, argidx, product, result,
                   return_code, exit_code, exc, has_errors, has_warnings,
                   mph_date, files, product_info, descidx, stage, results,
                   inventory, by_href, by_schema, warned, nerrors, logged,
                   calls, validation>>

NextCodec ==
    \/ Encode
    \/ Decode

SpecCodec == InitCodec /\ [][NextCodec]_vars

(***************************************************************************)
(* Properties                                                              *)
(***************************************************************************)
Range(l) == {l[i] : i \in 1..Len(l)}

\* the step is an iteration of the descriptor loop
IterationStep == pc = "loop" /\ descidx' = descidx + 1

\* the most severe of a sequence of results: 2 over 3 over 0
Severest(rs) ==
    IF 2 \in Range(rs) THEN 2 ELSE IF 3 \in Range(rs) THEN 3 ELSE 0

\* C1: between products main's return_code is the most severe of the
\* results returned so far (2 over 3 over 0), whatever their order, and a
\* run that reaches sys.exit(return_code) exits with the most severe result
\* of all its products.
C1_ExitCodeIsSeverest ==
    /\ pc = "main" => return_code = Severest(results)
    /\ (pc = "exited" /\ exc = "none") =>
          /\ Len(results) = Len(products)
          /\ exit_code = Severest(results)

C1_Witness ==
    /\ pc = "exited"
    /\ exc = "none"
    /\ results = <<3, 2>>
    /\ exit_code = 2

\* C2: from the listing of the inventory on, the files removed as a
\* descriptor's href, the files removed as a component schema and the files
\* still in the list are disjoint, hold no file twice and together are the
\* initial inventory; at the return the files warned as unreferenced are
\* exactly those still in the list.
C2_InventoryPartition ==
    stage \in {"inventory", "loop", "report"} =>
        /\ Range(by_href) \cup Range(by_schema) \cup Range(files)
             = Range(inventory)
        /\ Len(by_href) + Len(by_schema) + Len(files) = Len(inventory)
        /\ Cardinality(Range(inventory)) = Len(inventory)
        /\ MphFile \notin Range(inventory)
        /\ warned = IF stage = "report" THEN Range(files) ELSE {}

C2_Witness ==
    /\ stage = "report"
    /\ Len(inventory) = 3
    /\ by_href = <<<<"a">>>>
    /\ by_schema = <<<<"s">>>>
    /\ warned = {<<"b">>}
    /\ descidx = 2
    /\ product_info.href = <<"s">>

\* C3: while the pass runs past the structural checks the error flag is set
\* exactly when an error was logged in the pass, and the pass returns 2
\* exactly when an error was logged, 3 exactly when none was and a file was
\* warned as unreferenced, 0 exactly when neither happened.
C3_VerdictFromFindings ==
    /\ pc \in {"date", "inventory", "loop"} => (has_errors <=> nerrors > 0)
    /\ (pc = "aggregate" /\ stage = "report") =>
          /\ has_errors <=> nerrors > 0
          /\ has_warnings <=> warned # {}
          /\ result = 2 <=> nerrors > 0
          /\ result = 3 <=> (nerrors = 0 /\ warned # {})
          /\ result = 0 <=> (nerrors = 0 /\ warned = {})

C3_Witness ==
    /\ pc = "aggregate"
    /\ stage = "report"
    /\ nerrors = 1
    /\ warned # {}
    /\ result = 2

\* C4: a run that ends without a KeyboardInterrupt has taken every product
\* of the command line, has a result for each, and exits with 0, 2 or 3.
C4_FailuresAreLocal ==
    (pc = "exited" /\ exc # "KeyboardInterrupt") =>
        /\ argidx = Len(products)
        /\ Len(results) = Len(products)
        /\ exit_code \in {0, 2, 3}

\* s and t have the same length and differ in exactly one character
OneCharApart(s, t) ==
    /\ Len(s) = Len(t)
    /\ Cardinality({i \in 1..Len(s) : s[i] # t[i]}) = 1

\* C5: after the date check of a product whose processingDate parses, a
\* name ending in the encoded date leaves no error and the pass at the
\* inventory; a name whose last six characters differ from the encoded date
\* in one character leaves exactly one date-mismatch error and the pass at
\* the inventory.
C5_DateCheck ==
    (stage = "date" /\ mph_date # None /\ strptime(mph_date).exc = "none") =>
        LET code == base36encode(PyInt(total_seconds(mph_date))).val
            suffix == LastChars(product, SuffixLen)
        IN /\ suffix = code => (pc = "inventory" /\ logged = <<>>)
           /\ OneCharApart(suffix, code) =>
                /\ pc = "inventory"
                /\ has_errors
                /\ logged = <<Error("compact creation date does not match",
                                     product)>>

\* the number of entries of l that equal x
Count(l, x) == Cardinality({i \in 1..Len(l) : l[i] = x})

\* the descriptor of the step names a file other than the product itself
\* that is in the list
HrefFound ==
    /\ IterationStep
    /\ product_info'.href # product
    /\ product_info'.href \in Range(files)

\* the eop:size element of the step's descriptor is absent or a number
SizeReadable ==
    \/ product_info'.size = None
    \/ int(product_info'.size, 10).exc = "none"

\* C6: an iteration whose href is not the product's name and not in the
\* remaining list logs exactly the one missing-reference error and sets the
\* flag, leaves the list and the claimed files as they were, makes neither
\* the stat call nor a validator call, and leaves the pass in the loop.
C6_MissingReference ==
    [][(/\ IterationStep
        /\ product_info'.href # product
        /\ product_info'.href \notin Range(files)) =>
          /\ logged' = <<Error("MPH reference does not exist",
                               product_info'.href)>>
          /\ nerrors' = nerrors + 1
          /\ has_errors'
          /\ files' = files
          /\ by_href' = by_href
          /\ by_schema' = by_schema
          /\ calls' = <<>>
          /\ validation' = NoValidation
          /\ pc' = "loop"]_vars

C6_Witness ==
    /\ pc = "loop"
    /\ descidx = 2
    /\ product_info.href = <<"s">>
    /\ by_schema = <<<<"s">>>>
    /\ logged = <<Error("MPH reference does not exist", <<"s">>)>>

\* C7: an iteration whose href is in the list removes the file as claimed;
\* without a size element it makes no stat call and logs no size error, with
\* a declared size equal to the file's it logs none, with a different one it
\* logs exactly one size error naming the href and sets the flag; in each
\* case a schemaRef of the same descriptor is then looked up.
C7_SizeCheck ==
    [][(HrefFound /\ SizeReadable) =>
          LET info == product_info'
              mismatch == Error("file size does not match", info.href)
              declared == int(info.size, 10)
          IN /\ by_href' = Append(by_href, info.href)
             /\ info.href \notin Range(files')
             /\ info.size = None =>
                  /\ "stat" \notin Range(calls')
                  /\ Count(logged', mismatch) = 0
             /\ (info.size # None /\ declared.val = FileSize[info.href]) =>
                  /\ "stat" \in Range(calls')
                  /\ Count(logged', mismatch) = 0
             /\ (info.size # None /\ declared.val # FileSize[info.href]) =>
                  /\ "stat" \in Range(calls')
                  /\ Count(logged', mismatch) = 1
                  /\ has_errors'
             /\ info.rds # None =>
                  \/ "check_file_against_schema" \in Range(calls')
                  \/ Error("schema file does not exist", info.rds)
                        \in Range(logged')]_vars

C7_Witness ==
    /\ pc = "loop"
    /\ product_info = [href |-> <<"a">>, size |-> <<"2">>, rds |-> <<"s">>]
    /\ logged = <<Error("file size does not match", <<"a">>)>>
    /\ by_href = <<<<"a">>>>
    /\ by_schema = <<<<"s">>>>
    /\ validation.val

\* C8: every validator call returns a boolean, True exactly when the schema
\* compiles and the document is valid; a manifest-schema check that fails
\* sets the error flag and the pass goes on.
C8_ValidatorReturnsBoolean ==
    validation.doc # "none" =>
        /\ validation.exc = "none"
        /\ validation.val <=> (validation.schema_ok /\ validation.doc = "valid")
        /\ validation.builtin =>
             /\ validation.val \/ has_errors
             /\ pc \in {"date", "aggregate"}

\* C10: an iteration that claimed its href and has no schemaRef claims no
\* schema file and calls no validator; with a schemaRef that is not in the
\* remaining list it logs exactly one missing-schema error, sets the flag and
\* calls no validator; with a schemaRef in the remaining list it removes the
\* schema file and calls the validator on the component, and a validation
\* that returns False sets the flag.
C10_SchemaReference ==
    [][(HrefFound /\ SizeReadable) =>
          LET info == product_info'
              rest == Range(files) \ {info.href}
              missing == Error("schema file does not exist", info.rds)
              called == "check_file_against_schema" \in Range(calls')
          IN /\ info.rds = None =>
                  /\ ~called
                  /\ validation' = NoValidation
                  /\ by_schema' = by_schema
                  /\ Range(files') = rest
             /\ (info.rds # None /\ info.rds \notin rest) =>
                  /\ Count(logged', missing) = 1
                  /\ has_errors'
                  /\ ~called
                  /\ validation' = NoValidation
                  /\ by_schema' = by_schema
                  /\ Range(files') = rest
             /\ (info.rds # None /\ info.rds \in rest) =>
                  /\ Count(logged', missing) = 0
                  /\ called
                  /\ validation'.doc # "none"
                  /\ ~validation'.builtin
                  /\ by_schema' = Append(by_schema, info.rds)
                  /\ Range(files') = rest \ {info.rds}
                  /\ (validation'.exc = "none" /\ ~validation'.val) =>
                        (has_errors' /\ pc' = "loop")
                  /\ (validation'.exc = "none" /\ validation'.val) =>
                        Len(logged') = Count(logged',
                            Error("file size does not match", info.href))]_vars

C10_Witness ==
    /\ pc = "loop"
    /\ descidx = 2
    /\ product_info = [href |-> <<"b">>, size |-> None, rds |-> <<"s">>]
    /\ by_href = <<<<"a">>, <<"b">>>>
    /\ by_schema = <<<<"s">>>>
    /\ logged = <<Error("schema file does not exist", <<"s">>)>>

\* the characters of s are symbols of the alphabet
Symbols(s) == \A i \in 1..Len(s) : s[i] \in Range(alphabet)

\* C9: base36encode of an integer n >= 0 gives symbols of 0-9A-Z only, the
\* single symbol 0 for n = 0 and no leading 0 for n > 0, and int(s, 36) of
\* the result is n; base36encode of a float or of a str raises TypeError.
C9_CodecRoundTrip ==
    /\ (pc \in {"decode", "done"} /\ number.type = "int" /\ number.val >= 0) =>
          /\ encoded.exc = "none"
          /\ Symbols(encoded.val)
          /\ number.val = 0 => encoded.val = <<"0">>
          /\ number.val > 0 => Head(encoded.val) # "0"
    /\ (pc = "done" /\ number.type = "int" /\ number.val >= 0) =>
          /\ decoded.exc = "none"
          /\ decoded.val = number.val
    /\ (pc = "done" /\ number.type \in {"float", "str"}) =>
          /\ encoded.exc = "TypeError"
          /\ decoded.exc = "pending"

C9_Witness ==
    /\ pc = "done"
    /\ number = PyInt(726063237)
    /\ encoded.val = <<"C", "0", "A", "1", "Z", "9">>
    /\ decoded.exc = "none"
    /\ decoded.val = 726063237
====
